---------------------------- MODULE Spec2Model ----------------------------
(***************************************************************************)
(* Model of the database repairer of storage/repair.go: the run loop, the  *)
(* Repair() pass with its compare-and-swap gate, the candidate computation *)
(* (repairTimes / needsRepair) and the ledger of repair states; and of the *)
(* shard repairer's Repair call.                                           *)
(*                                                                         *)
(* Time is an integer number of clock units; time.Time{} (the zero time)   *)
(* is 0 and the clock starts well after it.                                *)
(***************************************************************************)
EXTENDS Integers, Sequences, FiniteSets, TLC

(* ------------------------------ bounds --------------------------------- *)

\* The clock runs from StartTime to StartTime + TimeSpan.
TimeSpan == 2

(* ------------------- options of the modelled instance ------------------ *)

\* ropts.RepairMaxRetries(): the largest value that Init draws
MaxRetriesOpt == 2

\* rtopts.BlockSize()
BlockSize == 2

\* rtopts.BufferPast()
BufferPast == 1

\* rtopts.RetentionPeriod()
RetentionPeriod == 4

\* ropts.RepairInterval()
RepairIntervalOpt == 2

\* ropts.RepairTimeOffset()
RepairTimeOffsetOpt == 1

\* ropts.RepairTimeJitter(): the upper bound of the jitter
RepairTimeJitterOpt == 1

\* First reading of the clock: later than the zero time by more than the
\* retention period and more than one repair interval.
StartTime == (RetentionPeriod + RepairIntervalOpt) + 1

MaxTime == StartTime + TimeSpan

Times == 0..MaxTime

\* Direct callers of Repair(), besides the run loop.
Callers == {"c1", "c2"}

RunLoop == "run"

Procs == Callers \cup {RunLoop}

\* The namespaces returned by database.getOwnedNamespaces().
Namespaces == {"ns1", "ns2"}

(* ------------------------------ state ---------------------------------- *)

VARIABLES
    now,               \* the clock read by nowFn()
    bootstrapped,      \* database.IsBootstrapped()
    started,           \* Start() has been called
    closed,            \* dbRepairer.closed
    running,           \* dbRepairer.running (int32, accessed atomically)
    repairStates,      \* dbRepairer.repairStates: map[time.Time]repairState
    repairInterval,    \* dbRepairer.repairInterval
    repairTimeOffset,  \* dbRepairer.repairTimeOffset
    repairTimeJitter,  \* dbRepairer.repairTimeJitter (the drawn jitter)
    repairMaxRetries,  \* dbRepairer.repairMaxRetries
    pc,                \* position of each task
    lastRet,           \* the value that the last Repair() call to return has returned
    passTimes,         \* Repair(): the local repairTimes
    idx,               \* Repair(): position of the range loop in passTimes
    multiErr,          \* Repair(): number of errors added to multiErr
    curIntervalStart,  \* run(): curIntervalStart
    attempted,         \* history: timestamps attempted by the task's pass
    outcomes,          \* history: error (TRUE) or not of each of these attempts
    ledger0,           \* history: the ledger when the task's pass computed its candidates
    attempts,          \* history: number of repairWithTime calls per timestamp
    triggerLog,        \* history: intervalStart of each repairFn call of run()
    probe,             \* result of the last direct evaluation of a pure function
    nsLog,             \* history: the n.Repair calls of the task's last repairWithTime
    runRet,            \* history: what the last repairFn call of run() returned
    history,           \* whether nsLog and runRet are recorded
    shard,             \* one shardRepairer.Repair call: position, inputs, history
    mutex              \* dbRepairer's sync.Mutex: its holder

vars == <<now, bootstrapped, started, closed, running, repairStates,
          repairInterval, repairTimeOffset, repairTimeJitter, repairMaxRetries,
          pc, lastRet, passTimes, idx, multiErr, curIntervalStart,
          attempted, outcomes, ledger0, attempts, triggerLog, probe,
          nsLog, runRet, history, shard, mutex>>

config == <<repairInterval, repairTimeOffset, repairTimeJitter, repairMaxRetries>>

locals == <<passTimes, idx, multiErr, attempted, outcomes, ledger0, nsLog>>

\* What no step of the run loop or of a Repair() pass changes.
aside == <<history, shard, mutex>>

loopVars == <<curIntervalStart, triggerLog>>

(* ------------------------- types and helpers --------------------------- *)

\* repairStatus
repairNotStarted == "NotStarted"

repairSuccess == "Success"

repairFailed == "Failed"

\* The zero value of repairState, which a map read of an absent key yields.
ZeroState == [Status |-> repairNotStarted, NumFailures |-> 0]

\* time.Time.Truncate(d): t rounded down to a multiple of d; t itself if d <= 0.
Truncate(t, d) == IF d <= 0 THEN t ELSE t - (t % d)

\* r.repairStates[t]: the entry, or the zero value when there is none.
MapGet(m, t) == IF t \in DOMAIN m THEN m[t] ELSE ZeroState

\* r.repairStates[t] = s
MapPut(m, t, s) == [k \in (DOMAIN m) \cup {t} |-> IF k = t THEN s ELSE m[k]]

EmptyMap == [k \in {} |-> ZeroState]

(* ------------------ needsRepair and repairTimes ------------------------ *)

\* Faulty variant: a timestamp is attempted once and never retried.
needsRepair_noRetry(t) == t \notin DOMAIN repairStates

\* Faulty variant: the retry limit is ignored.
needsRepair_noLimit(t) ==
    IF t \notin DOMAIN repairStates THEN TRUE
    ELSE repairStates[t].Status = repairFailed

\* Faulty variant: a successful entry with failures left is still retried.
needsRepair_anyStatus(t) ==
    IF t \notin DOMAIN repairStates THEN TRUE
    ELSE repairStates[t].NumFailures < repairMaxRetries

needsRepair(t) ==
    IF t \notin DOMAIN repairStates THEN TRUE
    ELSE /\ repairStates[t].Status = repairFailed
         /\ repairStates[t].NumFailures < repairMaxRetries

\* The loop "for t := end; !t.Before(start); t = t.Add(-blockSize)".
RECURSIVE repairTimesFrom(_, _)
repairTimesFrom(t, start) ==
    IF t < start THEN <<>>
    ELSE (IF needsRepair(t) THEN <<t>> ELSE <<>>)
         \o repairTimesFrom(t - BlockSize, start)

\* Faulty variant: the window ends at the block that is still being written.
repairTimes_noBlock ==
    repairTimesFrom(Truncate(now - BufferPast, BlockSize),
                    Truncate(now - RetentionPeriod, BlockSize))

repairTimes ==
    repairTimesFrom(Truncate((now - BufferPast) - BlockSize, BlockSize),
                    Truncate(now - RetentionPeriod, BlockSize))

\* "int(float64(end.Sub(start)) / float64(blockSize))": the capacity given
\* to make; start and end are multiples of blockSize, so the division is
\* exact, and the capacity is negative when end is before start.
SliceCap(start, end) == (end - start) \div BlockSize

\* repairTimes() of an instance whose retention period is retention.
\* "make([]time.Time, 0, cap)" panics when cap is negative. With the
\* retention period of the modelled instance the capacity is never
\* negative, and the times are those of repairTimes above.
repairTimesWith(retention) ==
    LET start == Truncate(now - retention, BlockSize)
        end == Truncate((now - BufferPast) - BlockSize, BlockSize)
    IN IF SliceCap(start, end) < 0
       THEN [panic |-> TRUE, times |-> <<>>]
       ELSE [panic |-> FALSE, times |-> repairTimesFrom(end, start)]

(* ------------------------------ Init ----------------------------------- *)

\* The sync.Mutex is unlocked and no Stop() call is under way. owner is the
\* task that holds the lock, stop the position of the Stop() call.
MutexFree == [owner |-> "free", stop |-> "idle"]

\* repair.MetadataComparisonResult{}: the zero value of the result.
ZeroResult == 0

\* No shardRepairer.Repair call is being made.
ShardIdle ==
    [pc |-> "idle", t |-> 0, failed |-> "none", log |-> <<>>,
     localWindow |-> <<>>, peerWindow |-> <<>>, metadataRes |-> ZeroResult,
     recorded |-> <<>>, ret |-> [err |-> "none", result |-> ZeroResult]]

Init ==
    /\ now = StartTime
    /\ bootstrapped = FALSE
    /\ started = FALSE
    /\ closed = FALSE
    /\ running = 0
    /\ repairStates = EmptyMap
    /\ repairInterval \in {0, RepairIntervalOpt}
    /\ repairTimeOffset = RepairTimeOffsetOpt
    /\ repairTimeJitter \in 0..RepairTimeJitterOpt
    /\ repairMaxRetries \in {0, MaxRetriesOpt}
    /\ pc = [p \in Procs |-> IF p = RunLoop THEN "off" ELSE "call"]
    /\ lastRet = "none"
    /\ passTimes = [p \in Procs |-> <<>>]
    /\ idx = [p \in Procs |-> 0]
    /\ multiErr = [p \in Procs |-> 0]
    /\ curIntervalStart = 0
    /\ attempted = [p \in Procs |-> <<>>]
    /\ outcomes = [p \in Procs |-> <<>>]
    /\ ledger0 = [p \in Procs |-> EmptyMap]
    /\ attempts = [t \in Times |-> 0]
    /\ triggerLog = <<>>
    /\ probe = [fn |-> "none"]
    /\ nsLog = [p \in Procs |-> <<>>]
    /\ runRet = "none"
    /\ history = FALSE
    /\ shard = ShardIdle
    /\ mutex = MutexFree


(* --------------------------- environment ------------------------------- *)

\* The clock advances.
Tick ==
    /\ now < MaxTime
    /\ now' = now + 1
    /\ UNCHANGED <<bootstrapped, started, closed, running, repairStates, config,
                   pc, lastRet, locals, loopVars, attempts, probe, runRet, aside>>

\* The database, which is outside this code, changes what IsBootstrapped()
\* returns.
SetBootstrapped ==
    /\ bootstrapped' = ~bootstrapped
    /\ UNCHANGED <<now, started, closed, running, repairStates, config,
                   pc, lastRet, locals, loopVars, attempts, probe, runRet, aside>>

(* ------------------------- Start and Stop ------------------------------ *)

\* Faulty variant: run() is spawned whatever the repair interval.
Start_always ==
    /\ ~started
    /\ started' = TRUE
    /\ pc' = [pc EXCEPT ![RunLoop] = "top"]
    /\ UNCHANGED <<now, bootstrapped, closed, running, repairStates, config,
                   lastRet, locals, loopVars, attempts, probe, runRet, aside>>

\* Start(): spawns run() unless repairInterval <= 0.
Start ==
    /\ ~started
    /\ started' = TRUE
    /\ pc' = IF repairInterval <= 0 THEN pc ELSE [pc EXCEPT ![RunLoop] = "top"]
    /\ UNCHANGED <<now, bootstrapped, closed, running, repairStates, config,
                   lastRet, locals, loopVars, attempts, probe, runRet, aside>>

\* Stop(): sets closed under the lock.
Stop ==
    /\ ~closed
    /\ closed' = TRUE
    /\ UNCHANGED <<now, bootstrapped, started, running, repairStates, config,
                   pc, lastRet, locals, loopVars, attempts, probe, runRet, aside>>

(* ------------------------------ Repair() ------------------------------- *)

\* Where a task continues when its Repair() call returns: run() logs the
\* error and goes to the top of its loop, a direct caller is done.
After(p) == IF p = RunLoop THEN "top" ELSE "call"

\* The task is between its successful compare-and-swap and the release.
InBody(p) == pc[p] \in {"times", "loop"}

\* The range loop of the pass has gone through all of repairTimes.
PassDone(p) == pc[p] = "loop" /\ idx[p] > Len(passTimes[p])

\* IsRepairing()
IsRepairing == running = 1

\* multiErr.FinalError(): nil when no error was added.
FinalError(n) == IF n = 0 THEN "nil" ELSE "err"

\* "if err := r.repairFn(); err != nil": what run() gets back from its call,
\* remembered when the history is kept.
Returned(p, v) == IF history /\ p = RunLoop THEN v ELSE runRet

\* Faulty variant: the bootstrap check is skipped.
RepairCheckBootstrapped_skip(p) ==
    /\ pc[p] = "call"
    /\ pc' = [pc EXCEPT ![p] = "cas"]
    /\ UNCHANGED <<now, bootstrapped, started, closed, running, repairStates,
                   config, lastRet, locals, loopVars, attempts, probe, runRet, aside>>

\* The entry of Repair(): "if !r.database.IsBootstrapped() { return nil }".
\* A direct caller is always ready to call; run() calls from RunPoll.
RepairCheckBootstrapped(p) ==
    /\ pc[p] = "call"
    /\ IF ~bootstrapped
       THEN /\ pc' = [pc EXCEPT ![p] = After(p)]
            /\ lastRet' = "nil"
            /\ runRet' = Returned(p, "nil")
       ELSE /\ pc' = [pc EXCEPT ![p] = "cas"]
            /\ UNCHANGED <<lastRet, runRet>>
    /\ UNCHANGED <<now, bootstrapped, started, closed, running, repairStates,
                   config, locals, loopVars, attempts, probe, aside>>

\* Faulty variant: the flag is set without being compared.
RepairCAS_noCompare(p) ==
    /\ pc[p] = "cas"
    /\ running' = 1
    /\ pc' = [pc EXCEPT ![p] = "times"]
    /\ UNCHANGED <<now, bootstrapped, started, closed, repairStates, config,
                   lastRet, locals, loopVars, attempts, probe, runRet, aside>>

\* Faulty variant: the caller waits for the flag instead of failing.
RepairCAS_blocking(p) ==
    /\ pc[p] = "cas"
    /\ running = 0
    /\ running' = 1
    /\ pc' = [pc EXCEPT ![p] = "times"]
    /\ UNCHANGED <<now, bootstrapped, started, closed, repairStates, config,
                   lastRet, locals, loopVars, attempts, probe, runRet, aside>>

\* "if !atomic.CompareAndSwapInt32(&r.running, 0, 1) { return errRepairInProgress }"
RepairCAS(p) ==
    /\ pc[p] = "cas"
    /\ IF running = 0
       THEN /\ running' = 1
            /\ pc' = [pc EXCEPT ![p] = "times"]
            /\ UNCHANGED <<lastRet, runRet>>
       ELSE /\ pc' = [pc EXCEPT ![p] = After(p)]
            /\ lastRet' = "inProgress"
            /\ runRet' = Returned(p, "inProgress")
            /\ UNCHANGED running
    /\ UNCHANGED <<now, bootstrapped, started, closed, repairStates, config,
                   locals, loopVars, attempts, probe, aside>>

\* "multiErr := xerrors.NewMultiError(); repairTimes := r.repairTimes()"
RepairTimes(p) ==
    /\ pc[p] = "times"
    /\ passTimes' = [passTimes EXCEPT ![p] = repairTimes]
    /\ idx' = [idx EXCEPT ![p] = 1]
    /\ multiErr' = [multiErr EXCEPT ![p] = 0]
    /\ attempted' = [attempted EXCEPT ![p] = <<>>]
    /\ outcomes' = [outcomes EXCEPT ![p] = <<>>]
    /\ ledger0' = [ledger0 EXCEPT ![p] = repairStates]
    /\ pc' = [pc EXCEPT ![p] = "loop"]
    /\ UNCHANGED <<now, bootstrapped, started, closed, running, repairStates,
                   config, lastRet, loopVars, attempts, probe, nsLog, runRet,
                   aside>>

\* "namespaces := r.database.getOwnedNamespaces()": the slice.
NamespaceSeq == <<"ns1", "ns2">>

\* Faulty variant: the loop over the namespaces stops at the first error.
NsNext_stopOnError(i, err) == IF err THEN Len(NamespaceSeq) + 1 ELSE i + 1

\* "for _, n := range namespaces": the loop goes on to the next namespace
\* whether or not n.Repair returned an error.
NsNext(i, err) == i + 1

\* The n.Repair calls that the loop makes from the i-th namespace on, as
\* pairs <<namespace, error or not>>; failed[n] tells whether n.Repair
\* returns an error.
RECURSIVE repairNamespaces(_, _)
repairNamespaces(i, failed) ==
    IF i > Len(NamespaceSeq) THEN <<>>
    ELSE LET n == NamespaceSeq[i]
         IN <<<<n, failed[n]>>>> \o repairNamespaces(NsNext(i, failed[n]), failed)

\* repairWithTime(t): every namespace is asked to repair t. The result is
\* the number of errors added to the multi-error.
repairWithTime(failed) ==
    LET calls == repairNamespaces(1, failed)
    IN Cardinality({i \in DOMAIN calls : calls[i][2]})

\* Faulty variant: a failure is recorded without being counted.
NextState_noCount(state, err) ==
    IF err
    THEN [state EXCEPT !.Status = repairFailed]
    ELSE [state EXCEPT !.Status = repairSuccess]

\* Faulty variant: a success clears the failure count.
NextState_reset(state, err) ==
    IF err
    THEN [Status |-> repairFailed, NumFailures |-> state.NumFailures + 1]
    ELSE [Status |-> repairSuccess, NumFailures |-> 0]

\* The update of the repair state after repairWithTime returned.
NextState(state, err) ==
    IF err
    THEN [Status |-> repairFailed, NumFailures |-> state.NumFailures + 1]
    ELSE [state EXCEPT !.Status = repairSuccess]

\* Faulty variant: the loop stops at the first error.
NextIdx_stopOnError(i, n, err) == IF err THEN n + 1 ELSE i + 1

\* The range loop moves to the next element whatever the outcome.
NextIdx(i, n, err) == i + 1

\* One iteration of "for _, repairTime := range repairTimes".
RepairLoop(p) ==
    /\ pc[p] = "loop"
    /\ idx[p] <= Len(passTimes[p])
    /\ \E failed \in [Namespaces -> BOOLEAN] :
         LET repairTime == passTimes[p][idx[p]]
             err == FinalError(repairWithTime(failed)) # "nil"
             repairState == MapGet(repairStates, repairTime)
         IN /\ repairStates' = MapPut(repairStates, repairTime,
                                      NextState(repairState, err))
            /\ multiErr' = [multiErr EXCEPT ![p] = @ + (IF err THEN 1 ELSE 0)]
            /\ idx' = [idx EXCEPT ![p] = NextIdx(@, Len(passTimes[p]), err)]
            /\ attempted' = [attempted EXCEPT ![p] = Append(@, repairTime)]
            /\ outcomes' = [outcomes EXCEPT ![p] = Append(@, err)]
            /\ attempts' = [attempts EXCEPT ![repairTime] = @ + 1]
            /\ nsLog' = [nsLog EXCEPT ![p] = IF history
                                             THEN repairNamespaces(1, failed)
                                             ELSE <<>>]
    /\ UNCHANGED <<now, bootstrapped, started, closed, running, config,
                   pc, lastRet, passTimes, ledger0, loopVars, probe, runRet, aside>>

\* Faulty variant: the flag is released only when the pass had no error.
Release_onSuccessOnly(n) == IF n = 0 THEN 0 ELSE running

\* The deferred "atomic.StoreInt32(&r.running, 0)".
Release(n) == 0

\* "return multiErr.FinalError()"
ReturnValue(n) == FinalError(n)

\* The end of the pass: the return value is computed, the deferred
\* function releases the flag, and the call returns.
RepairReturn(p) ==
    /\ PassDone(p)
    /\ running' = Release(multiErr[p])
    /\ lastRet' = ReturnValue(multiErr[p])
    /\ pc' = [pc EXCEPT ![p] = After(p)]
    /\ passTimes' = [passTimes EXCEPT ![p] = <<>>]
    /\ idx' = [idx EXCEPT ![p] = 0]
    /\ multiErr' = [multiErr EXCEPT ![p] = 0]
    /\ attempted' = [attempted EXCEPT ![p] = <<>>]
    /\ outcomes' = [outcomes EXCEPT ![p] = <<>>]
    /\ ledger0' = [ledger0 EXCEPT ![p] = EmptyMap]
    /\ nsLog' = [nsLog EXCEPT ![p] = <<>>]
    /\ runRet' = Returned(p, ReturnValue(multiErr[p]))
    /\ UNCHANGED <<now, bootstrapped, started, closed, repairStates, config,
                   loopVars, attempts, probe, aside>>

(* ------------------------------- run() --------------------------------- *)

\* Faulty variant: the loop goes on whatever the closed flag.
RunCheckClosed_ignore ==
    /\ pc[RunLoop] = "top"
    /\ pc' = [pc EXCEPT ![RunLoop] = "sleep"]
    /\ UNCHANGED <<now, bootstrapped, started, closed, running, repairStates,
                   config, lastRet, locals, loopVars, attempts, probe, runRet, aside>>

\* "r.Lock(); closed := r.closed; r.Unlock(); if closed { break }"
RunCheckClosed ==
    /\ pc[RunLoop] = "top"
    /\ pc' = [pc EXCEPT ![RunLoop] = IF closed THEN "exited" ELSE "sleep"]
    /\ UNCHANGED <<now, bootstrapped, started, closed, running, repairStates,
                   config, lastRet, locals, loopVars, attempts, probe, runRet, aside>>

\* Faulty variant: the jitter is left out of the target.
Target_noJitter(intervalStart) == intervalStart + repairTimeOffset

\* intervalStart.Add(r.repairTimeOffset + r.repairTimeJitter)
Target(intervalStart) == intervalStart + (repairTimeOffset + repairTimeJitter)

\* now.Before(target)
TooEarly(n, intervalStart) == n < Target(intervalStart)

\* Faulty variant: the interval is not remembered.
NextIntervalStart_forget(intervalStart) == curIntervalStart

\* "curIntervalStart = intervalStart"
NextIntervalStart(intervalStart) == intervalStart

\* The rest of an iteration of run(): the sleep, the reading of the clock,
\* the two checks and, when both pass, the call of repairFn.
RunPoll ==
    /\ pc[RunLoop] = "sleep"
    /\ LET intervalStart == Truncate(now, repairInterval)
       IN IF TooEarly(now, intervalStart) \/ intervalStart = curIntervalStart
          THEN /\ pc' = [pc EXCEPT ![RunLoop] = "top"]
               /\ UNCHANGED <<curIntervalStart, triggerLog>>
          ELSE /\ curIntervalStart' = NextIntervalStart(intervalStart)
               /\ triggerLog' = Append(triggerLog, intervalStart)
               /\ pc' = [pc EXCEPT ![RunLoop] = "call"]
    /\ UNCHANGED <<now, bootstrapped, started, closed, running, repairStates,
                   config, lastRet, locals, attempts, probe, runRet, aside>>

(* --------------------------- specification ----------------------------- *)

Next ==
    \/ Tick
    \/ SetBootstrapped
    \/ Start
    \/ Stop
    \/ RunCheckClosed
    \/ RunPoll
    \/ \E p \in Procs : RepairCheckBootstrapped(p)
    \/ \E p \in Procs : RepairCAS(p)
    \/ \E p \in Procs : RepairTimes(p)
    \/ \E p \in Procs : RepairLoop(p)
    \/ \E p \in Procs : RepairReturn(p)

Spec == Init /\ [][Next]_vars

(* --------------- the same program with its history kept ---------------- *)

\* The state after construction, apart from the options and from whether
\* the history is kept.
InitState ==
    /\ now = StartTime
    /\ bootstrapped = FALSE
    /\ started = FALSE
    /\ closed = FALSE
    /\ running = 0
    /\ repairStates = EmptyMap
    /\ lastRet = "none"
    /\ passTimes = [p \in Procs |-> <<>>]
    /\ idx = [p \in Procs |-> 0]
    /\ multiErr = [p \in Procs |-> 0]
    /\ curIntervalStart = 0
    /\ attempted = [p \in Procs |-> <<>>]
    /\ outcomes = [p \in Procs |-> <<>>]
    /\ ledger0 = [p \in Procs |-> EmptyMap]
    /\ attempts = [t \in Times |-> 0]
    /\ triggerLog = <<>>
    /\ probe = [fn |-> "none"]
    /\ nsLog = [p \in Procs |-> <<>>]
    /\ runRet = "none"
    /\ shard = ShardIdle
    /\ mutex = MutexFree

\* One task besides run() calls Repair() directly; the other direct caller
\* never calls.
OneCaller ==
    [p \in Procs |-> IF p = RunLoop THEN "off"
                     ELSE IF p = "c1" THEN "call" ELSE "never"]

\* An instance whose offset plus jitter is within the repair interval,
\* with what run() got back and what repairWithTime did recorded.
InitHistory ==
    /\ InitState
    /\ pc = OneCaller
    /\ repairInterval = RepairIntervalOpt
    /\ repairTimeOffset = RepairTimeOffsetOpt
    /\ repairTimeJitter = 0
    /\ repairMaxRetries \in {0, MaxRetriesOpt}
    /\ history = TRUE

SpecHistory == InitHistory /\ [][Next]_vars

(* ------------------- the run loop under fair scheduling ---------------- *)

\* The goroutine of run() is scheduled again and again, sleepFn returns,
\* and each step of a pass that run() has started terminates. Nothing is
\* assumed about the clock, the direct callers, Start() or Stop().
InitLive ==
    /\ InitState
    /\ pc = OneCaller
    /\ repairInterval = RepairIntervalOpt
    /\ repairTimeOffset = RepairTimeOffsetOpt
    /\ repairTimeJitter = 0
    /\ repairMaxRetries \in {0, MaxRetriesOpt}
    /\ history = FALSE

SpecLive ==
    /\ InitLive
    /\ [][Next]_vars
    /\ WF_vars(RunCheckClosed)
    /\ WF_vars(RunPoll)
    /\ WF_vars(RepairCheckBootstrapped(RunLoop))
    /\ WF_vars(RepairCAS(RunLoop))
    /\ WF_vars(RepairTimes(RunLoop))
    /\ WF_vars(RepairLoop(RunLoop))
    /\ WF_vars(RepairReturn(RunLoop))


(* -------------------- the mutex, one step at a time -------------------- *)

\* In Spec the lock, the access and the unlock of RunCheckClosed and of
\* Stop are one step each. Here Lock() is a step of its own, so that the
\* two critical sections can be seen to exclude each other and the steps
\* that are taken without the lock can be told apart.

\* Faulty variant: Stop() enters without waiting for the lock.
StopLock_noWait ==
    /\ mutex.stop = "idle"
    /\ ~closed
    /\ mutex' = [owner |-> "stop", stop |-> "locked"]
    /\ UNCHANGED <<now, bootstrapped, started, closed, running, repairStates,
                   config, pc, lastRet, locals, loopVars, attempts, probe,
                   runRet, history, shard>>

\* Stop(): "r.Lock()" returns when the lock is free.
StopLock ==
    /\ mutex.stop = "idle"
    /\ ~closed
    /\ mutex.owner = "free"
    /\ mutex' = [owner |-> "stop", stop |-> "locked"]
    /\ UNCHANGED <<now, bootstrapped, started, closed, running, repairStates,
                   config, pc, lastRet, locals, loopVars, attempts, probe,
                   runRet, history, shard>>

\* Stop(): "r.closed = true; r.Unlock()"
StopWrite ==
    /\ mutex.stop = "locked"
    /\ closed' = TRUE
    /\ mutex' = [owner |-> "free", stop |-> "idle"]
    /\ UNCHANGED <<now, bootstrapped, started, running, repairStates,
                   config, pc, lastRet, locals, loopVars, attempts, probe,
                   runRet, history, shard>>

\* run(): "r.Lock()" returns when the lock is free.
RunLock ==
    /\ pc[RunLoop] = "top"
    /\ mutex.owner = "free"
    /\ mutex' = [mutex EXCEPT !.owner = RunLoop]
    /\ pc' = [pc EXCEPT ![RunLoop] = "locked"]
    /\ UNCHANGED <<now, bootstrapped, started, closed, running, repairStates,
                   config, lastRet, locals, loopVars, attempts, probe,
                   runRet, history, shard>>

\* run(): "closed := r.closed; r.Unlock(); if closed { break }"
RunReadClosed ==
    /\ pc[RunLoop] = "locked"
    /\ mutex' = [mutex EXCEPT !.owner = "free"]
    /\ pc' = [pc EXCEPT ![RunLoop] = IF closed THEN "exited" ELSE "sleep"]
    /\ UNCHANGED <<now, bootstrapped, started, closed, running, repairStates,
                   config, lastRet, locals, loopVars, attempts, probe,
                   runRet, history, shard>>

NextLock ==
    \/ Tick
    \/ SetBootstrapped
    \/ Start
    \/ StopLock
    \/ StopWrite
    \/ RunLock
    \/ RunReadClosed
    \/ RunPoll
    \/ \E p \in Procs : RepairCheckBootstrapped(p)
    \/ \E p \in Procs : RepairCAS(p)
    \/ \E p \in Procs : RepairTimes(p)
    \/ \E p \in Procs : RepairLoop(p)
    \/ \E p \in Procs : RepairReturn(p)

SpecLock == InitLive /\ [][NextLock]_vars

(* ------------------------ shardRepairer.Repair ------------------------- *)

\* The variables of the database repairer, which a shard repair leaves alone.
dbVars == <<now, bootstrapped, started, closed, running, repairStates, config,
            pc, lastRet, locals, loopVars, attempts, probe, runRet, history,
            mutex>>

\* The block starts that the shard repairer is called with.
ShardTimes == {t \in Times : t % BlockSize = 0}

\* What metadata.Compare() can return: the zero value when the replicas
\* agree, or a result with differences.
MetadataResults == {ZeroResult, 1, 2}

\* Whether shard.FetchBlocksMetadata fails; its second result is the error.
LocalFetchOutcomes == BOOLEAN

\* The first step of the call that met an error, for the record.
FirstFailure(step, err) ==
    IF err /\ shard.failed = "none" THEN step ELSE shard.failed

\* The call returns: "return repair.MetadataComparisonResult{}, err".
ShardFails(step) ==
    [shard EXCEPT !.pc = "done",
                  !.failed = FirstFailure(step, TRUE),
                  !.ret = [err |-> step, result |-> ZeroResult]]

\* A namespace calls shardRepairer.Repair(ctx, namespace, t, shard).
ShardCall ==
    /\ shard.pc = "idle"
    /\ \E t \in ShardTimes : shard' = [ShardIdle EXCEPT !.pc = "session", !.t = t]
    /\ UNCHANGED dbVars

\* "session, err := r.client.DefaultAdminSession(); if err != nil { return }"
ShardSession ==
    /\ shard.pc = "session"
    /\ \E err \in BOOLEAN :
         shard' = IF err THEN ShardFails("session")
                  ELSE [shard EXCEPT !.pc = "local",
                                     !.log = Append(@, "session")]
    /\ UNCHANGED dbVars

\* "localMetadata, _ := shard.FetchBlocksMetadata(fetchCtx, start, end, ...)":
\* the second result is dropped, and whatever came back is added to the
\* comparer and closed.
ShardLocal ==
    /\ shard.pc = "local"
    /\ \E err \in LocalFetchOutcomes :
         shard' = [shard EXCEPT !.pc = "peers",
                                !.failed = FirstFailure("local", err),
                                !.localWindow = <<shard.t, shard.t + BlockSize>>,
                                !.log = @ \o <<"fetchLocal", "addLocal">>]
    /\ UNCHANGED dbVars

\* Faulty variant: the peers are asked for the block after t.
PeerWindow_next(t) == <<t + BlockSize, (t + BlockSize) + BlockSize>>

\* The start and end given to session.FetchBlocksMetadataFromPeers.
PeerWindow(t) == <<t, t + BlockSize>>

\* "peerIter, err := session.FetchBlocksMetadataFromPeers(namespace,
\* shard.ID(), start, end); if err != nil { return }"
ShardFetchPeers ==
    /\ shard.pc = "peers"
    /\ \E err \in BOOLEAN :
         shard' = IF err
                  THEN [ShardFails("peers") EXCEPT
                           !.peerWindow = PeerWindow(shard.t),
                           !.log = Append(@, "fetchPeers")]
                  ELSE [shard EXCEPT !.pc = "addPeer",
                                     !.peerWindow = PeerWindow(shard.t),
                                     !.log = Append(@, "fetchPeers")]
    /\ UNCHANGED dbVars

\* "if err := metadata.AddPeerMetadata(peerIter); err != nil { return }"
ShardAddPeer ==
    /\ shard.pc = "addPeer"
    /\ \E err \in BOOLEAN :
         shard' = IF err
                  THEN [ShardFails("addPeer") EXCEPT !.log = Append(@, "addPeer")]
                  ELSE [shard EXCEPT !.pc = "compare",
                                     !.log = Append(@, "addPeer")]
    /\ UNCHANGED dbVars

\* "metadataRes := metadata.Compare()"
ShardCompare ==
    /\ shard.pc = "compare"
    /\ \E res \in MetadataResults :
         shard' = [shard EXCEPT !.pc = "record",
                                !.metadataRes = res,
                                !.log = Append(@, "compare")]
    /\ UNCHANGED dbVars

\* Faulty variant: the zero value is returned instead of the result.
ShardResult_zero(metadataRes) == ZeroResult

\* The result returned on success: metadataRes itself.
ShardResult(metadataRes) == metadataRes

\* "r.recordFn(namespace, shard, metadataRes); return metadataRes, nil"
ShardRecord ==
    /\ shard.pc = "record"
    /\ shard' = [shard EXCEPT !.pc = "done",
                              !.recorded = Append(@, shard.metadataRes),
                              !.log = Append(@, "record"),
                              !.ret = [err |-> "nil",
                                       result |-> ShardResult(shard.metadataRes)]]
    /\ UNCHANGED dbVars

\* The caller has the result; the next call can be made.
ShardDone ==
    /\ shard.pc = "done"
    /\ shard' = ShardIdle
    /\ UNCHANGED dbVars

InitShard ==
    /\ InitState
    /\ pc = OneCaller
    /\ repairInterval = RepairIntervalOpt
    /\ repairTimeOffset = RepairTimeOffsetOpt
    /\ repairTimeJitter = 0
    /\ repairMaxRetries = MaxRetriesOpt
    /\ history = FALSE

NextShard ==
    \/ ShardCall
    \/ ShardSession
    \/ ShardLocal
    \/ ShardFetchPeers
    \/ ShardAddPeer
    \/ ShardCompare
    \/ ShardRecord
    \/ ShardDone

SpecShard == InitShard /\ [][NextShard]_vars

(* ------------- needsRepair and repairTimes on any ledger --------------- *)

\* The keys of the ledgers that InitFn draws: the block starts that a
\* window of the modelled clock range can reach.
FnKeys ==
    {t \in Times : /\ t % BlockSize = 0
                   /\ t >= Truncate(StartTime - RetentionPeriod, BlockSize)
                   /\ t <= (MaxTime - BufferPast) - BlockSize}

\* The repair states that InitFn draws.
FnStates ==
    {ZeroState} \cup
    [Status : {repairSuccess, repairFailed}, NumFailures : 0..MaxRetriesOpt]

\* Every ledger over every subset of FnKeys.
FnLedgers == UNION {[K -> FnStates] : K \in SUBSET FnKeys}

\* Any clock reading, any ledger and any retry limit; no task is running.
InitFn ==
    /\ now \in StartTime..MaxTime
    /\ bootstrapped = TRUE
    /\ started = FALSE
    /\ closed = FALSE
    /\ running = 0
    /\ repairStates \in FnLedgers
    /\ repairInterval = RepairIntervalOpt
    /\ repairTimeOffset = RepairTimeOffsetOpt
    /\ repairTimeJitter = 0
    /\ repairMaxRetries \in 0..MaxRetriesOpt
    /\ pc = [p \in Procs |-> IF p = RunLoop THEN "off" ELSE "call"]
    /\ lastRet = "none"
    /\ passTimes = [p \in Procs |-> <<>>]
    /\ idx = [p \in Procs |-> 0]
    /\ multiErr = [p \in Procs |-> 0]
    /\ curIntervalStart = 0
    /\ attempted = [p \in Procs |-> <<>>]
    /\ outcomes = [p \in Procs |-> <<>>]
    /\ ledger0 = [p \in Procs |-> EmptyMap]
    /\ attempts = [t \in Times |-> 0]
    /\ triggerLog = <<>>
    /\ probe = [fn |-> "none"]
    /\ nsLog = [p \in Procs |-> <<>>]
    /\ runRet = "none"
    /\ history = FALSE
    /\ shard = ShardIdle
    /\ mutex = MutexFree

\* needsRepair(t) is evaluated.
EvalNeedsRepair ==
    /\ \E t \in Times :
         probe' = [fn |-> "needsRepair", t |-> t, result |-> needsRepair(t)]
    /\ UNCHANGED <<now, bootstrapped, started, closed, running, repairStates,
                   config, pc, lastRet, locals, loopVars, attempts, runRet,
                   aside>>

\* repairTimes() is evaluated.
EvalRepairTimes ==
    /\ probe' = [fn |-> "repairTimes", result |-> repairTimes]
    /\ UNCHANGED <<now, bootstrapped, started, closed, running, repairStates,
                   config, pc, lastRet, locals, loopVars, attempts, runRet,
                   aside>>

\* The retention periods that repairTimes() is evaluated with: that of the
\* modelled instance, and one block.
FnRetentions == {RetentionPeriod, BlockSize}

\* repairTimes() is evaluated in an instance with some retention period.
EvalRepairTimesWith ==
    /\ \E retention \in FnRetentions :
         probe' = [fn |-> "repairTimesWith", retention |-> retention,
                   result |-> repairTimesWith(retention)]
    /\ UNCHANGED <<now, bootstrapped, started, closed, running, repairStates,
                   config, pc, lastRet, locals, loopVars, attempts, runRet,
                   aside>>

NextFn ==
    \/ EvalNeedsRepair
    \/ EvalRepairTimes
    \/ EvalRepairTimesWith

SpecFn == InitFn /\ [][NextFn]_vars


(* ============================ properties =============================== *)

\* A step in which task p leaves position "from".
Leaves(p, from) == pc[p] = from /\ pc'[p] # from

\* The tasks that are executing the body of a pass.
Holders == {p \in Procs : InBody(p)}

(* C1: in every reachable state at most one task is between its successful
   compare-and-swap on the running flag and the release of the flag. *)
C1_AtMostOnePass == Cardinality(Holders) <= 1

\* A pass is in flight and another task is at its compare-and-swap.
C1_Witness ==
    \E p \in Procs, q \in Procs :
        /\ p # q
        /\ pc[p] = "loop"
        /\ pc[q] = "cas"

(* C2: a task that reaches the compare-and-swap while another task's pass
   is in flight can always take its step, and that step returns
   RepairInProgress at once and changes neither the flag, the ledger nor
   the pass in flight, which goes on; a task that finds the flag clear
   enters the pass and is the only one in it. *)
C2_SecondCallerFailsFast ==
    /\ [](\A p \in Procs : pc[p] = "cas" => ENABLED RepairCAS(p))
    /\ [][\A p \in Procs :
            Leaves(p, "cas") =>
              IF running = 1
              THEN /\ pc'[p] = After(p)
                   /\ lastRet' = "inProgress"
                   /\ \E q \in Procs \ {p} : InBody(q) /\ pc'[q] = pc[q]
                   /\ UNCHANGED <<running, repairStates, locals, attempts>>
              ELSE /\ pc'[p] = "times"
                   /\ running' = 1
                   /\ \A q \in Procs \ {p} : pc'[q] \notin {"times", "loop"}]_vars

\* One caller has just been turned away while the other's pass is in flight.
C2_Witness ==
    \E p \in Procs, q \in Procs :
        /\ p # q
        /\ pc[p] = After(p)
        /\ lastRet = "inProgress"
        /\ pc[q] = "loop"
        /\ idx[q] <= Len(passTimes[q])

\* A step in which a Repair() call of task p returns.
Returns(p) ==
    \/ Leaves(p, "cas") /\ pc'[p] = After(p)
    \/ Leaves(p, "loop") /\ pc'[p] = After(p)
    \/ Leaves(p, "call") /\ pc'[p] = After(p)
    \/ /\ pc[p] = "call" /\ pc'[p] = "call"
       /\ lastRet' # lastRet

(* C3, as stated: whenever a call to Repair() returns, IsRepairing() is
   false. *)
C3_Original == [][\A p \in Procs : Returns(p) => running' = 0]_vars

(* C3, amended: the return of a call that acquired the flag releases it,
   whether the pass had errors or not, and IsRepairing() is true only while
   some task is executing a pass. *)
C3_GateReleased ==
    /\ [](IsRepairing => Holders # {})
    /\ [][\A p \in Procs :
            (Leaves(p, "loop") /\ pc'[p] = After(p)) =>
                /\ running' = 0
                /\ lastRet' \in {"nil", "err"}]_vars

\* A pass has just returned an aggregate error and the flag is clear.
C3_Witness ==
    /\ lastRet = "err"
    /\ ~IsRepairing
    /\ Holders = {}
    /\ \E t \in DOMAIN repairStates : repairStates[t].Status = repairFailed

(* C4: a timestamp that has failed has been attempted at most
   repairMaxRetries times after its first attempt, and a timestamp that a
   pass still has to attempt has been attempted at most repairMaxRetries
   times so far: once the retries are used up it is no candidate. *)
C4_BoundedRetries ==
    /\ \A t \in DOMAIN repairStates :
          repairStates[t].NumFailures >= 1 =>
              attempts[t] - 1 <= repairMaxRetries
    /\ \A t \in DOMAIN repairStates : attempts[t] <= 1 + repairMaxRetries
    /\ \A p \in Procs :
          pc[p] = "loop" =>
              \A i \in idx[p]..Len(passTimes[p]) :
                  LET t == passTimes[p][i]
                  IN /\ attempts[t] <= repairMaxRetries
                     /\ MapGet(repairStates, t).NumFailures >= repairMaxRetries
                            => t \notin DOMAIN repairStates

\* A timestamp has used up its retries, and a pass that started afterwards
\* in a window holding that timestamp has left it out.
C4_Witness ==
    \E p \in Procs, t \in DOMAIN repairStates :
        /\ repairMaxRetries >= 2
        /\ pc[p] = "loop"
        /\ t \in DOMAIN ledger0[p]
        /\ ledger0[p][t].Status = repairFailed
        /\ ledger0[p][t].NumFailures = repairMaxRetries
        /\ attempts[t] = repairMaxRetries
        /\ t >= Truncate(now - RetentionPeriod, BlockSize)
        /\ t <= Truncate((now - BufferPast) - BlockSize, BlockSize)
        /\ \A i \in 1..Len(passTimes[p]) : passTimes[p][i] # t

(* C5: needsRepair(t) is true exactly when t has no ledger entry or its
   entry is Failed with numFailures < repairMaxRetries; it is false for a
   Success entry whatever its failure count and for a Failed entry whose
   numFailures has reached repairMaxRetries. *)
C5_NeedsRepair ==
    probe.fn = "needsRepair" =>
        LET t == probe.t
            has == t \in DOMAIN repairStates
        IN /\ probe.result =
                (\/ ~has
                 \/ /\ repairStates[t].Status = repairFailed
                    /\ repairStates[t].NumFailures < repairMaxRetries)
           /\ (has /\ repairStates[t].Status = repairSuccess) => ~probe.result
           /\ (has /\ repairStates[t].Status = repairFailed
                   /\ repairStates[t].NumFailures = repairMaxRetries)
                 => ~probe.result

\* needsRepair was evaluated on a Failed entry that has used up its retries.
C5_Witness ==
    /\ probe.fn = "needsRepair"
    /\ probe.t \in DOMAIN repairStates
    /\ repairStates[probe.t].Status = repairFailed
    /\ repairStates[probe.t].NumFailures = repairMaxRetries
    /\ repairMaxRetries > 0
    /\ ~probe.result

\* The result is in strictly descending order, hence without duplicates.
Descending(l) == \A i \in 1..(Len(l) - 1) : l[i] > l[i + 1]

\* Every element is a multiple of blockSize.
Aligned(l) == \A i \in 1..Len(l) : l[i] % BlockSize = 0

(* C6, as stated: repairTimes() returns only timestamps strictly between
   now - retentionPeriod and now - bufferPast - blockSize, aligned to
   blockSize, in strictly descending order. *)
C6_Original ==
    probe.fn = "repairTimes" =>
        /\ \A i \in 1..Len(probe.result) :
              /\ probe.result[i] > now - RetentionPeriod
              /\ probe.result[i] < (now - BufferPast) - BlockSize
        /\ Aligned(probe.result)
        /\ Descending(probe.result)

(* C6, amended: repairTimes() returns only timestamps t with
   Truncate(now - retentionPeriod) <= t <= now - bufferPast - blockSize,
   both ends included, aligned to blockSize, in strictly descending
   order. *)
C6_RepairTimesWindow ==
    probe.fn = "repairTimes" =>
        /\ \A i \in 1..Len(probe.result) :
              /\ probe.result[i] >= Truncate(now - RetentionPeriod, BlockSize)
              /\ probe.result[i] > (now - RetentionPeriod) - BlockSize
              /\ probe.result[i] <= (now - BufferPast) - BlockSize
        /\ Aligned(probe.result)
        /\ Descending(probe.result)

\* repairTimes() returned two timestamps, the older one at the very start
\* of the window.
C6_Witness ==
    /\ probe.fn = "repairTimes"
    /\ Len(probe.result) = 2
    /\ probe.result[2] = Truncate(now - RetentionPeriod, BlockSize)
    /\ probe.result[2] < now - RetentionPeriod


\* The number of repairFn calls that run() has made for interval start s.
Triggers(log, s) == Cardinality({i \in DOMAIN log : log[i] = s})

(* C7: the run loop calls repairFn for an interval start only when the
   clock read at the poll is at or after that interval's target time, never
   twice for the same interval start, and a poll at or after the target
   leaves exactly one call made for its interval: the first such poll of an
   interval makes the call and the later ones make none. *)
C7_OncePerInterval ==
    /\ [](\A i \in DOMAIN triggerLog, j \in DOMAIN triggerLog :
             i # j => triggerLog[i] # triggerLog[j])
    /\ [][Len(triggerLog') > Len(triggerLog) =>
             /\ Leaves(RunLoop, "sleep")
             /\ triggerLog' = Append(triggerLog, Truncate(now, repairInterval))
             /\ now >= Target(Truncate(now, repairInterval))]_vars
    /\ [][(Leaves(RunLoop, "sleep")
             /\ now >= Target(Truncate(now, repairInterval))) =>
             Triggers(triggerLog', Truncate(now, repairInterval)) = 1]_vars

\* With the target inside the interval, the run loop has made its call for
\* two intervals in a row and is polling again in the second one.
C7_Witness ==
    /\ repairTimeOffset + repairTimeJitter < repairInterval
    /\ Len(triggerLog) = 2
    /\ triggerLog[2] = triggerLog[1] + repairInterval
    /\ pc[RunLoop] = "sleep"
    /\ curIntervalStart = Truncate(now, repairInterval)
    /\ now >= Target(curIntervalStart)

(* C8: a Repair() call that finds the database not bootstrapped returns nil
   and changes neither the running flag, the ledger, the attempt counts nor
   any pass in flight, whether or not another pass is in flight. *)
C8_NotBootstrappedNoOp ==
    [][~bootstrapped =>
          /\ \A p \in Procs :
                pc[p] = "call" => pc'[p] \in {"call", After(p)}
          /\ (\/ \E p \in Procs : Leaves(p, "call")
              \/ /\ lastRet' # lastRet
                 /\ \A p \in Procs : pc[p] \notin {"cas", "loop"} \/ pc'[p] = pc[p])
               => /\ lastRet' = "nil"
                  /\ UNCHANGED <<running, repairStates, attempts, locals>>]_vars

\* The database is not bootstrapped, a pass that started earlier is still
\* in flight, and the run loop's call has returned nil without touching it.
C8_Witness ==
    /\ ~bootstrapped
    /\ lastRet = "nil"
    /\ pc[RunLoop] = "top"
    /\ Len(triggerLog) = 1
    /\ IsRepairing
    /\ \E q \in Callers :
          /\ pc[q] = "loop"
          /\ idx[q] = 1
          /\ Len(passTimes[q]) >= 1
    /\ repairStates = EmptyMap

(* C9: while a pass runs, the timestamps it has attempted are exactly the
   candidates before the position of its loop, in the order of the list
   computed at its start, so that at the end of the loop every candidate
   has been attempted once, in order, whatever the outcomes; and the pass
   returns only at the end of the loop. *)
C9_EveryCandidateOnce ==
    /\ [](\A p \in Procs :
            pc[p] = "loop" =>
               /\ idx[p] \in 1..(Len(passTimes[p]) + 1)
               /\ Len(outcomes[p]) = Len(attempted[p])
               /\ attempted[p] = SubSeq(passTimes[p], 1, idx[p] - 1))
    /\ [][\A p \in Procs :
            /\ pc[p] = "loop" /\ pc'[p] = "loop" => passTimes'[p] = passTimes[p]
            /\ Leaves(p, "loop") => attempted[p] = passTimes[p]]_vars

\* A pass with two candidates is at the end of its loop; the first attempt
\* failed and the second one was made all the same.
C9_Witness ==
    \E p \in Procs :
        /\ PassDone(p)
        /\ Len(passTimes[p]) = 2
        /\ attempted[p] = passTimes[p]
        /\ outcomes[p][1]
        /\ ~outcomes[p][2]

\* The candidates of the pass of task p, as a set.
Candidates(p) == {passTimes[p][i] : i \in 1..Len(passTimes[p])}

\* The outcome of the attempt of candidate t in the pass of task p.
Failed(p, t) == \E i \in 1..Len(attempted[p]) : attempted[p][i] = t /\ outcomes[p][i]

(* C10: at the end of a pass, each candidate that succeeded has status
   Success and the failure count it had before the pass, each candidate
   that failed has status Failed and one failure more than before the pass,
   the entries of all other timestamps are as before the pass, and
   Repair() returns nil exactly when every candidate succeeded. *)
C10_LedgerAfterPass ==
    /\ [](\A p \in Procs :
            PassDone(p) =>
               /\ DOMAIN repairStates = (DOMAIN ledger0[p]) \cup Candidates(p)
               /\ \A t \in DOMAIN repairStates :
                     IF t \in Candidates(p)
                     THEN IF Failed(p, t)
                          THEN /\ repairStates[t].Status = repairFailed
                               /\ repairStates[t].NumFailures =
                                     MapGet(ledger0[p], t).NumFailures + 1
                          ELSE /\ repairStates[t].Status = repairSuccess
                               /\ repairStates[t].NumFailures =
                                     MapGet(ledger0[p], t).NumFailures
                     ELSE repairStates[t] = ledger0[p][t])
    /\ [][\A p \in Procs :
            Leaves(p, "loop") =>
               /\ lastRet' \in {"nil", "err"}
               /\ lastRet' = "nil" <=> \A t \in Candidates(p) : ~Failed(p, t)]_vars

\* A pass is at its end in which a candidate that had failed before has
\* succeeded, keeping its failure count, and another candidate has failed.
C10_Witness ==
    \E p \in Procs, t \in DOMAIN repairStates, u \in DOMAIN repairStates :
        /\ PassDone(p)
        /\ t \in Candidates(p)
        /\ u \in Candidates(p)
        /\ t \in DOMAIN ledger0[p]
        /\ ledger0[p][t].NumFailures = 1
        /\ ~Failed(p, t)
        /\ repairStates[t] = [Status |-> repairSuccess, NumFailures |-> 1]
        /\ Failed(p, u)
        /\ \E v \in DOMAIN ledger0[p] : v \notin Candidates(p)


\* The namespaces that the last repairWithTime call of task p asked, in
\* the order of the calls.
Asked(p) == [i \in DOMAIN nsLog[p] |-> nsLog[p][i][1]]

\* Some n.Repair call of the last repairWithTime call of task p failed.
SomeNamespaceFailed(p) == \E i \in DOMAIN nsLog[p] : nsLog[p][i][2]

(* C11: each repairWithTime call of a pass, whether it is the first of the
   pass or follows an attempt that failed, asks every owned namespace in
   turn to repair the timestamp, also the namespaces that come after one
   that failed, and it returns an error exactly when some namespace
   failed. *)
C11_AllNamespacesAsked ==
    \A p \in Procs :
        (pc[p] = "loop" /\ Len(attempted[p]) >= 1) =>
            /\ Asked(p) = NamespaceSeq
            /\ outcomes[p][Len(outcomes[p])] <=> SomeNamespaceFailed(p)

\* The first attempt of a pass failed, and at the next candidate the first
\* namespace failed and the second one was still asked, and succeeded.
C11_Witness ==
    \E p \in Procs :
        /\ pc[p] = "loop"
        /\ Len(attempted[p]) = 2
        /\ outcomes[p][1]
        /\ outcomes[p][2]
        /\ nsLog[p] = <<<<NamespaceSeq[1], TRUE>>, <<NamespaceSeq[2], FALSE>>>>


(* C12: once Stop() has been called, a run loop that was started
   eventually exits. Stop() itself changes only the closed flag: it changes
   neither the position of any task, the running flag nor the ledger, so a
   pass in flight goes on. The loop exits only from the check at the top of
   an iteration, never from inside a pass, and once it has exited it calls
   repairFn no more. *)
C12_StopEndsLoop ==
    /\ ((closed /\ pc[RunLoop] # "off") ~> (pc[RunLoop] = "exited"))
    /\ [][closed' # closed =>
             /\ closed'
             /\ UNCHANGED <<pc, running, repairStates, locals, loopVars>>]_vars
    /\ [][(pc'[RunLoop] = "exited" /\ pc[RunLoop] # "exited") =>
             (closed /\ pc[RunLoop] = "top")]_vars
    /\ [][pc[RunLoop] = "exited" =>
             (pc'[RunLoop] = "exited" /\ triggerLog' = triggerLog)]_vars

\* Stop() has returned while the pass that run() started is still in the
\* middle of its loop: IsRepairing() is still true.
C12_Witness ==
    /\ closed
    /\ IsRepairing
    /\ pc[RunLoop] = "loop"
    /\ Len(passTimes[RunLoop]) = 2
    /\ idx[RunLoop] = 2

(* C13: with a repair interval that is zero or negative, Start() spawns no
   run loop: run() never leaves its initial position, no scheduled call of
   repairFn is ever made, and a pass is in flight only when a direct caller
   of Repair() has started it. *)
C13_NoLoopWithoutInterval ==
    repairInterval <= 0 =>
        /\ pc[RunLoop] = "off"
        /\ triggerLog = <<>>
        /\ IsRepairing => \E p \in Callers : InBody(p)

\* Start() was called with a repair interval of zero, the clock has moved
\* on by more than the offset and the jitter, the database is bootstrapped,
\* and nothing is repairing.
C13_Witness ==
    /\ repairInterval <= 0
    /\ started
    /\ bootstrapped
    /\ now > StartTime + (repairTimeOffset + repairTimeJitter)
    /\ ~IsRepairing
    /\ repairStates = EmptyMap


(* C14: when the session acquisition, the local metadata fetch, the peer
   metadata fetch or the adding of the peer metadata meets an error, the
   call returns that error, Compare() is not invoked and the recording
   function is not called. *)
C14_ErrorAborts ==
    shard.failed # "none" =>
        /\ shard.pc = "done"
        /\ shard.ret.err = shard.failed
        /\ \A i \in DOMAIN shard.log : shard.log[i] \notin {"compare", "record"}
        /\ shard.recorded = <<>>

(* C15: when the call that run() made for an interval was rejected with
   errRepairInProgress, the pass is skipped for that poll only: the next
   poll whose clock reading is at or after the target calls Repair()
   again. *)
C15_RejectedPassRetried ==
    [][(/\ runRet = "inProgress"
        /\ Leaves(RunLoop, "sleep")
        /\ ~TooEarly(now, Truncate(now, repairInterval)))
          => pc'[RunLoop] = "call"]_vars

\* Task p takes a step of Repair() that reads or writes r.repairStates:
\* the computation of the candidates, which calls needsRepair, or an
\* iteration of the loop.
LedgerAccess(p) ==
    \/ Leaves(p, "times")
    \/ pc[p] = "loop" /\ pc'[p] = "loop" /\ idx'[p] > idx[p]

\* A step reads or writes r.closed: the read of run(), the write of Stop().
ClosedRead == Leaves(RunLoop, "locked")

ClosedWrite == closed' # closed

\* C16 as it was stated: every read and every write of the closed flag and
\* of the ledger is made by a task that holds the mutex.
C16_Original ==
    [][/\ ClosedRead => mutex.owner = RunLoop
       /\ ClosedWrite => mutex.owner = "stop"
       /\ \A p \in Procs : LedgerAccess(p) => mutex.owner = p]_vars

(* C16: the closed flag is read by run() and written by Stop() only while
   the task holds the mutex, and the two critical sections exclude each
   other. The ledger is read and written without the mutex, but only by
   the one task that has won the compare-and-swap on the running flag and
   has not yet released it. So no two tasks are ever at an access of the
   closed flag, or at an access of the ledger, at the same time. *)
C16_AccessesExclusive ==
    /\ [](~(pc[RunLoop] = "locked" /\ mutex.stop = "locked"))
    /\ [][/\ ClosedRead => mutex.owner = RunLoop
          /\ ClosedWrite => mutex.owner = "stop"
          /\ \A p \in Procs :
                LedgerAccess(p) =>
                   /\ mutex.owner # p
                   /\ running = 1
                   /\ Holders = {p}]_vars

\* Stop() holds the mutex and is about to set closed, run() is back at the
\* top of its loop waiting for the lock, and a direct caller is in the
\* middle of its pass, changing the ledger without the mutex.
C16_Witness ==
    /\ mutex = [owner |-> "stop", stop |-> "locked"]
    /\ pc[RunLoop] = "top"
    /\ Len(triggerLog) = 1
    /\ \E p \in Callers :
          /\ pc[p] = "loop"
          /\ Len(attempted[p]) = 1
          /\ idx[p] <= Len(passTimes[p])

\* The call has returned without an error, after Compare() and the recording
\* function.
ShardSucceeded == shard.pc = "done" /\ shard.ret.err = "nil"

(* C17: a shard repair that returns without an error has added the local
   metadata, then fetched the peer metadata for the same window
   [t, t + blockSize) and added it, then invoked Compare(), then called
   the recording function once, with the result of Compare(), and it
   returns that same result. *)
C17_SuccessfulRepairOrder ==
    ShardSucceeded =>
        /\ shard.log = <<"session", "fetchLocal", "addLocal", "fetchPeers",
                         "addPeer", "compare", "record">>
        /\ shard.localWindow = <<shard.t, shard.t + BlockSize>>
        /\ shard.peerWindow = shard.localWindow
        /\ shard.recorded = <<shard.metadataRes>>
        /\ shard.ret.result = shard.metadataRes

\* A shard repair of a block has returned a result with differences.
C17_Witness ==
    /\ ShardSucceeded
    /\ shard.failed = "none"
    /\ shard.t > 0
    /\ shard.metadataRes # ZeroResult
    /\ shard.ret.result = shard.metadataRes


\* The elements of a sequence.
Elements(l) == {l[i] : i \in DOMAIN l}

(* C18: repairTimes() returns a list, without repetition, of exactly the
   blockSize-aligned timestamps t with start <= t <= end that need repair,
   where start = Truncate(now - retentionPeriod) and
   end = Truncate(now - bufferPast - blockSize); so every block of the list
   ends at or before now - bufferPast, and the list is empty when end is
   before start. *)
C18_ExactCandidates ==
    probe.fn = "repairTimesWith" =>
        LET start == Truncate(now - probe.retention, BlockSize)
            end == Truncate((now - BufferPast) - BlockSize, BlockSize)
            times == probe.result.times
        IN /\ ~probe.result.panic
           /\ Elements(times) = {t \in Times : /\ t % BlockSize = 0
                                               /\ start <= t
                                               /\ t <= end
                                               /\ needsRepair(t)}
           /\ Len(times) = Cardinality(Elements(times))
           /\ \A t \in Elements(times) : t + BlockSize <= now - BufferPast
           /\ end < start => times = <<>>


\* The timestamps of the ledger that are in the window of repairTimes() at
\* the present clock reading and whose entry is Failed with retries left.
Retriable ==
    {t \in DOMAIN repairStates :
        /\ Truncate(now - RetentionPeriod, BlockSize) <= t
        /\ t <= Truncate((now - BufferPast) - BlockSize, BlockSize)
        /\ repairStates[t].Status = repairFailed
        /\ repairStates[t].NumFailures < repairMaxRetries}

(* C19: a pass that returns an error to run() does not end the loop: run()
   goes back to the top of its loop, which it leaves only when it reads
   closed as true. After such an error, a poll that reads an interval start
   other than the last handled one, at or after its target, calls repairFn
   again; and a pass that run() has started takes as candidates every
   timestamp of the window whose entry is Failed with
   numFailures < repairMaxRetries, and attempts all its candidates before
   it returns. *)
C19_LoopSurvivesError ==
    /\ [][Leaves(RunLoop, "loop") => pc'[RunLoop] = "top"]_vars
    /\ [][(pc'[RunLoop] = "exited" /\ pc[RunLoop] # "exited") => closed]_vars
    /\ [][(/\ runRet = "err"
            /\ Leaves(RunLoop, "sleep")
            /\ ~TooEarly(now, Truncate(now, repairInterval))
            /\ Truncate(now, repairInterval) # curIntervalStart)
              => /\ pc'[RunLoop] = "call"
                 /\ triggerLog' = Append(triggerLog, Truncate(now, repairInterval))]_vars
    /\ [][Leaves(RunLoop, "times") =>
             Retriable \subseteq Elements(passTimes'[RunLoop])]_vars
    /\ [][Leaves(RunLoop, "loop") =>
             attempted[RunLoop] = passTimes[RunLoop]]_vars

\* The pass that run() started for the first interval returned an error;
\* the pass that it started for the next interval has attempted again a
\* timestamp that had failed once, and is at its end.
C19_Witness ==
    /\ runRet = "err"
    /\ Len(triggerLog) = 2
    /\ PassDone(RunLoop)
    /\ \E t \in Elements(attempted[RunLoop]) :
          /\ t \in DOMAIN ledger0[RunLoop]
          /\ ledger0[RunLoop][t] = [Status |-> repairFailed, NumFailures |-> 1]


(* C20: an entry with status Success is never changed or removed, a
   timestamp whose entry is Success is never attempted again, even when its
   failure count is below repairMaxRetries, and no pass takes such a
   timestamp as a candidate. *)
C20_SuccessAbsorbing ==
    /\ [][\A t \in DOMAIN repairStates :
             repairStates[t].Status = repairSuccess =>
                /\ t \in DOMAIN repairStates'
                /\ repairStates'[t] = repairStates[t]
                /\ attempts'[t] = attempts[t]]_vars
    /\ [][\A p \in Procs :
             Leaves(p, "times") =>
                \A t \in Elements(passTimes'[p]) :
                   MapGet(repairStates, t).Status # repairSuccess]_vars

\* A timestamp failed once and then succeeded, with retries left; a later
\* pass, which had that timestamp in its window, has attempted another
\* timestamp and not that one.
C20_Witness ==
    \E p \in Procs, t \in DOMAIN repairStates :
        /\ PassDone(p)
        /\ t \in DOMAIN ledger0[p]
        /\ ledger0[p][t] = [Status |-> repairSuccess, NumFailures |-> 1]
        /\ repairMaxRetries > 1
        /\ attempts[t] = 2
        /\ repairStates[t] = ledger0[p][t]
        /\ Len(attempted[p]) >= 1
        /\ t \notin Candidates(p)
        /\ t >= Truncate(now - RetentionPeriod, BlockSize)


\* The larger of two numbers.
Max(a, b) == IF a >= b THEN a ELSE b

\* The blockSize-aligned timestamps of the window of repairTimes() at the
\* present clock reading.
Window ==
    {t \in Times :
        /\ t % BlockSize = 0
        /\ Truncate(now - RetentionPeriod, BlockSize) <= t
        /\ t <= Truncate((now - BufferPast) - BlockSize, BlockSize)}

(* C21: every entry of the ledger has status Success or Failed, never
   NotStarted; a Failed entry has at least one failure; the failure count
   of an entry is at most max(1, repairMaxRetries); no entry is ever removed
   and no failure count ever decreases. A pass takes every timestamp of its
   window that has no entry as a candidate, whatever repairMaxRetries is,
   and with repairMaxRetries = 0 no timestamp is attempted more than
   once. *)
C21_LedgerEntries ==
    /\ [](\A t \in DOMAIN repairStates :
            /\ repairStates[t].Status \in {repairSuccess, repairFailed}
            /\ repairStates[t].Status = repairFailed =>
                  repairStates[t].NumFailures >= 1
            /\ repairStates[t].NumFailures >= 0
            /\ repairStates[t].NumFailures <= Max(1, repairMaxRetries))
    /\ [][\A t \in DOMAIN repairStates :
             /\ t \in DOMAIN repairStates'
             /\ repairStates'[t].NumFailures >= repairStates[t].NumFailures]_vars
    /\ [][\A p \in Procs :
             Leaves(p, "times") =>
                \A t \in Window :
                   t \notin DOMAIN repairStates =>
                      t \in Elements(passTimes'[p])]_vars
    /\ [](repairMaxRetries = 0 => \A t \in Times : attempts[t] <= 1)

\* With repairMaxRetries = 0, a timestamp was attempted once and failed;
\* a later pass, which has that timestamp in its window, has attempted a
\* timestamp that had no entry and not the failed one.
C21_Witness ==
    \E p \in Procs, t \in DOMAIN repairStates :
        /\ repairMaxRetries = 0
        /\ PassDone(p)
        /\ t \in Window
        /\ t \in DOMAIN ledger0[p]
        /\ repairStates[t] = [Status |-> repairFailed, NumFailures |-> 1]
        /\ attempts[t] = 1
        /\ t \notin Candidates(p)
        /\ \E u \in Candidates(p) : u \notin DOMAIN ledger0[p]


\* run() calls repairFn in this step.
RunCalls == pc[RunLoop] # "call" /\ pc'[RunLoop] = "call"

(* C22: run() calls repairFn only from a poll whose clock reading is at or
   after the target of an interval start other than the last handled one,
   and it records that interval start as handled in the very step of the
   call, before the call can return anything. The record stays while the
   call is under way and after it has returned; so, whether the call
   returned nil (for instance because the database was not bootstrapped),
   errRepairInProgress or an error, a later poll that reads the same
   interval start makes no call. *)
C22_SlotConsumedBeforePass ==
    /\ [][RunCalls =>
             /\ Leaves(RunLoop, "sleep")
             /\ Truncate(now, repairInterval) # curIntervalStart
             /\ ~TooEarly(now, Truncate(now, repairInterval))
             /\ curIntervalStart' = Truncate(now, repairInterval)]_vars
    /\ [][curIntervalStart' # curIntervalStart => RunCalls]_vars
    /\ [][(/\ runRet \in {"nil", "inProgress", "err"}
            /\ Leaves(RunLoop, "sleep")
            /\ Truncate(now, repairInterval) = curIntervalStart)
              => /\ pc'[RunLoop] = "top"
                 /\ triggerLog' = triggerLog]_vars

\* The call that run() made for one interval was rejected with
\* errRepairInProgress; run() polled on, and has now made its next call,
\* for the next interval.
C22_Witness ==
    /\ history
    /\ runRet = "inProgress"
    /\ pc[RunLoop] = "call"
    /\ Len(triggerLog) = 2
    /\ triggerLog[2] = triggerLog[1] + repairInterval
    /\ curIntervalStart = triggerLog[2]


(* C23: when repairTimeOffset plus the drawn jitter is at least
   repairInterval, the target of the interval that contains the clock
   reading is after the clock reading, at every clock reading; so run()
   never calls repairFn and never is inside Repair(), however often it
   polls. *)
C23_TargetNeverReached ==
    repairTimeOffset + repairTimeJitter >= repairInterval =>
        /\ now < Truncate(now, repairInterval)
                    + (repairTimeOffset + repairTimeJitter)
        /\ triggerLog = <<>>
        /\ curIntervalStart = 0
        /\ pc[RunLoop] \in {"off", "top", "sleep", "exited"}

\* With a positive repair interval and offset plus jitter equal to it, the
\* run loop was started on a bootstrapped database, the clock has moved on
\* by a whole interval, and the loop is polling without ever having made a
\* call.
C23_Witness ==
    /\ repairInterval > 0
    /\ repairTimeOffset + repairTimeJitter >= repairInterval
    /\ started
    /\ bootstrapped
    /\ ~closed
    /\ pc[RunLoop] = "sleep"
    /\ now >= StartTime + repairInterval
    /\ triggerLog = <<>>

=============================================================================
